---- MODULE Spec2Model ----
(***************************************************************************)
(* Job queue and lifecycle coordinator of the receipt-processing service   *)
(* (Python/redis-rq): TaskService.create_and_enqueue_job (submit),         *)
(* LoggingService (the job_log store), RQService (the broker client) and   *)
(* the jobs API (callback and status endpoints).                           *)
(*                                                                         *)
(* Two snapshots of the service are in the repository.  They share         *)
(* LoggingService; their TaskService differs, and the variable impl says   *)
(* which TaskService a deployment runs.  RQService is the one of the       *)
(* later snapshot (2-accouting-automation-system-Kiro).                    *)
(***************************************************************************)
EXTENDS Integers, Sequences, FiniteSets, TLC

VARIABLES
    impl,       \* which TaskService the deployment runs: "accounting" or "kiro"
    store,      \* the job_log table: the set of its rows
    clock,      \* the next reading of datetime.utcnow()
    broker,     \* the tasks pushed to the Redis queue, in order
    calls,      \* the create_and_enqueue_job calls (one per upload request)
    last,       \* the response of the last callback or status request
    reported,   \* history: per job_id, which status updates have been committed
    nreports,   \* history: how many status updates have been committed
    client,     \* an RQService used on its own, with its last operation
    backoff,    \* the retry configuration of an RQService and the delays it slept
    sessions    \* the database sessions of callback requests that read, then commit

vars == <<impl, store, clock, broker, calls, last, reported, nreports, client, backoff,
          sessions>>

----------------------------------------------------------------------------
(* Bounds and input domains *)

MaxCalls == 2
MaxUpdates == 2
MaxOps == 3
MaxAttempts == 6
MaxClock == 5

Calls == 1 .. MaxCalls

\* Python None, for Optional[str] values
None == "None"
\* Python None, for Optional[datetime] values; clock readings start at 1
NullTime == 0

\* job ids are UUID values; NoJob is Python None for Optional[UUID]
JobIds == {1, 2}
NoJob == 0
\* str(job_id)
UuidStr(job_id) == IF job_id = 1 THEN "uuid-1" ELSE IF job_id = 2 THEN "uuid-2" ELSE "uuid-x"

jpeg_bytes == "jpeg_bytes"
UploadFile(filename, contents) ==
    [filename |-> filename, content_type |-> "image/jpeg", contents |-> contents]
NoFile == [filename |-> None, content_type |-> None, contents |-> ""]
\* the upload requests: a file and the notion_database_id form field
UploadRequests ==
    { [file |-> UploadFile("receipt.jpg", jpeg_bytes),  notion_database_id |-> "db-abc"],
      [file |-> UploadFile("new_file.jpg", jpeg_bytes), notion_database_id |-> "ext-1"],
      [file |-> UploadFile("f.jpg", ""),                notion_database_id |-> "ext-1"] }

CALLBACK_SECRET_TOKEN == "secret"
Tokens == {None, "", "wrong", CALLBACK_SECRET_TOKEN}

\* the JobStatus enumeration
JobStatus == {"queued", "processing", "success", "failure"}
\* JobCallbackPayload: status is any string, message and notion_page_url are optional
PayloadStatuses == {"processing", "success", "failure", "completed"}
Messages == {None, "", "ok", "bad image"}
Urls == {None, "http://x"}
Payloads == [status : PayloadStatuses, message : Messages, notion_page_url : Urls]
OkPayload == [status |-> "success", message |-> "ok", notion_page_url |-> "http://x"]
\* no payload: the request is not a callback
NoPayload == [status |-> None, message |-> None, notion_page_url |-> None]
\* what the storage engine does during one LoggingService call
DbOutcomes == {"ok", "get_fails", "commit_fails"}

\* the callback requests: every payload with the right token and a working
\* store, one payload with each wrong token and with each storage fault
CallbackRequests ==
    { [token |-> CALLBACK_SECRET_TOKEN, payload |-> p, dbo |-> "ok"] : p \in Payloads }
        \cup { [token |-> t, payload |-> OkPayload, dbo |-> "ok"] : t \in Tokens }
        \cup { [token |-> CALLBACK_SECRET_TOKEN, payload |-> OkPayload, dbo |-> d] : d \in DbOutcomes }

\* truth value of an Optional[str] in an if
Truthy(s) == s # None /\ s # ""

----------------------------------------------------------------------------
(* RQService: the broker client *)

max_retries == 3
retry_delay == 1
max_retry_delay == 30

Min(a, b) == IF a <= b THEN a ELSE b

RECURSIVE Pow2(_)
Pow2(n) == IF n = 0 THEN 1 ELSE 2 * Pow2(n - 1)

\* BackoffDelayOf without the cap
BackoffDelayOf_uncapped(delay, attempt, max_delay) == delay * Pow2(attempt)

\* min(self.retry_delay * (2 ** attempt), self.max_retry_delay)
BackoffDelayOf(delay, attempt, max_delay) == Min(delay * Pow2(attempt), max_delay)

\* the delay slept after failed attempt number attempt (0-based)
BackoffDelay(attempt) == BackoffDelayOf(retry_delay, attempt, max_retry_delay)

\* state of a client: the Redis connection object and the rq Queue handle
Connected == [redis_connection |-> TRUE, queue |-> TRUE]
\* a client before _initialize_connection has run
Unconnected == [redis_connection |-> FALSE, queue |-> FALSE]

\* outcomes of one ping: "ok" or the Redis error it raises
PingOutcomes == {"ok", "ConnectionError", "TimeoutError", "RedisError"}
\* what the broker answers to the pings of one _initialize_connection
PingRuns == [1 .. max_retries -> PingOutcomes]
\* the first nfail pings fail, the others succeed
FailFirst(nfail) == [i \in 1 .. max_retries |-> IF i <= nfail THEN "ConnectionError" ELSE "ok"]

\* ConnectLoop that gives up one attempt early
RECURSIVE ConnectLoop_fewer(_, _, _, _, _, _)
ConnectLoop_fewer(rq, attempt, pings, attempts, slept, last_error) ==
    IF attempt >= max_retries - 1
    THEN [rq |-> rq, raised |-> "QueueConnectionError", cause |-> last_error,
          attempts |-> attempts, slept |-> slept]
    ELSE LET made == [rq EXCEPT !.redis_connection = TRUE]
         IN  IF pings[attempt + 1] = "ok"
             THEN [rq |-> [made EXCEPT !.queue = TRUE], raised |-> "", cause |-> "",
                   attempts |-> attempts + 1, slept |-> slept]
             ELSE ConnectLoop_fewer(made, attempt + 1, pings, attempts + 1,
                                    IF attempt < max_retries - 1
                                    THEN slept + BackoffDelay(attempt) ELSE slept,
                                    pings[attempt + 1])

\* ConnectLoop that sleeps after the last failed attempt too
RECURSIVE ConnectLoop_sleepalways(_, _, _, _, _, _)
ConnectLoop_sleepalways(rq, attempt, pings, attempts, slept, last_error) ==
    IF attempt >= max_retries
    THEN [rq |-> rq, raised |-> "QueueConnectionError", cause |-> last_error,
          attempts |-> attempts, slept |-> slept]
    ELSE LET made == [rq EXCEPT !.redis_connection = TRUE]
         IN  IF pings[attempt + 1] = "ok"
             THEN [rq |-> [made EXCEPT !.queue = TRUE], raised |-> "", cause |-> "",
                   attempts |-> attempts + 1, slept |-> slept]
             ELSE ConnectLoop_sleepalways(made, attempt + 1, pings, attempts + 1,
                                          slept + BackoffDelay(attempt),
                                          pings[attempt + 1])

\* The retry loop of _initialize_connection from attempt on; pings[i] is the
\* outcome of the i-th ping.  The result: the client, the error raised with
\* its cause (last_error), the number of pings made and the seconds slept.
RECURSIVE ConnectLoop(_, _, _, _, _, _)
ConnectLoop(rq, attempt, pings, attempts, slept, last_error) ==
    IF attempt >= max_retries
    THEN [rq |-> rq, raised |-> "QueueConnectionError", cause |-> last_error,
          attempts |-> attempts, slept |-> slept]
    ELSE LET made == [rq EXCEPT !.redis_connection = TRUE]
         IN  IF pings[attempt + 1] = "ok"
             THEN [rq |-> [made EXCEPT !.queue = TRUE], raised |-> "", cause |-> "",
                   attempts |-> attempts + 1, slept |-> slept]
             ELSE ConnectLoop(made, attempt + 1, pings, attempts + 1,
                              IF attempt < max_retries - 1
                              THEN slept + BackoffDelay(attempt) ELSE slept,
                              pings[attempt + 1])

initialize_connection(rq, pings) == ConnectLoop(rq, 0, pings, 0, 0, None)

reconnect_with_retry(rq, pings) ==
    LET closed == IF rq.redis_connection THEN Unconnected ELSE rq
    IN  initialize_connection(closed, pings)

\* _initialize_connection of 2--Kiro: one attempt; a ping that raises
\* ConnectionError or TimeoutError gives QueueConnectionError, any other error
\* of the ping is not caught
initialize_connection_kiro(rq, pings) ==
    LET made == [rq EXCEPT !.redis_connection = TRUE]
    IN  IF pings[1] = "ok"
        THEN [rq |-> [made EXCEPT !.queue = TRUE], raised |-> "", cause |-> "",
              attempts |-> 1, slept |-> 0]
        ELSE [rq |-> made,
              raised |-> IF pings[1] = "RedisError" THEN "RedisError"
                         ELSE "QueueConnectionError",
              cause |-> pings[1], attempts |-> 1, slept |-> 0]

\* the connection set-up of __init__
Connect(im, rq, pings) ==
    IF im = "accounting" THEN initialize_connection(rq, pings)
    ELSE initialize_connection_kiro(rq, pings)

\* the reconnect of enqueue_job: _reconnect_with_retry in the later RQService,
\* _initialize_connection on the client as it is in 2--Kiro
Reconnect(im, rq, pings) ==
    IF im = "accounting" THEN reconnect_with_retry(rq, pings)
    ELSE initialize_connection_kiro(rq, pings)

\* outcomes of one self._queue.enqueue(...) call: "redis_error" is an error the
\* connectivity except clause catches, "other_error" any other exception
SubmitOutcomes == {"ok", "redis_error", "other_error"}

\* enqueue_job that reconnects and then gives up without a second submission
enqueue_job_noretry(im, rq, e1, pings, e2) ==
    LET none == [rq |-> rq, raised |-> "", enqueued |-> FALSE, submissions |-> 0,
                 reconnects |-> 0, attempts |-> 0, slept |-> 0]
        r == Reconnect(im, rq, pings)
        tried == [none EXCEPT !.rq = r.rq, !.reconnects = 1,
                     !.attempts = r.attempts, !.slept = r.slept]
        \* the reconnect and the second submission
        retried ==
            IF r.raised # ""
            THEN [tried EXCEPT !.raised = "JobEnqueueError", !.submissions = 1]
            ELSE [tried EXCEPT !.raised = IF e2 = "ok" THEN "" ELSE "JobEnqueueError",
                               !.enqueued = (e2 = "ok"), !.submissions = 2]
    IN  IF ~rq.queue
        THEN [none EXCEPT !.raised = "QueueConnectionError"]
        ELSE IF e1 = "ok"
        THEN [none EXCEPT !.enqueued = TRUE, !.submissions = 1]
        ELSE IF e1 = "redis_error"
        THEN [tried EXCEPT !.raised = "JobEnqueueError", !.submissions = 1]
        ELSE [none EXCEPT !.raised = "JobEnqueueError", !.submissions = 1]

\* enqueue_job that submits a third time when the second submission fails
enqueue_job_loops(im, rq, e1, pings, e2) ==
    LET none == [rq |-> rq, raised |-> "", enqueued |-> FALSE, submissions |-> 0,
                 reconnects |-> 0, attempts |-> 0, slept |-> 0]
        r == Reconnect(im, rq, pings)
        tried == [none EXCEPT !.rq = r.rq, !.reconnects = 1,
                     !.attempts = r.attempts, !.slept = r.slept]
        \* the reconnect and the second submission
        retried ==
            IF r.raised # ""
            THEN [tried EXCEPT !.raised = "JobEnqueueError", !.submissions = 1]
            ELSE [tried EXCEPT !.raised = IF e2 = "ok" THEN "" ELSE "JobEnqueueError",
                               !.enqueued = (e2 = "ok"), !.submissions = 2]
    IN  IF ~rq.queue
        THEN [none EXCEPT !.raised = "QueueConnectionError"]
        ELSE IF e1 = "ok"
        THEN [none EXCEPT !.enqueued = TRUE, !.submissions = 1]
        ELSE IF e1 = "redis_error"
        THEN IF r.raised = "" /\ e2 # "ok"
             THEN [retried EXCEPT !.submissions = 3, !.reconnects = 2]
             ELSE retried
        ELSE [none EXCEPT !.raised = "JobEnqueueError", !.submissions = 1]

\* enqueue_job that reconnects after any failed submission
enqueue_job_reconnectany(im, rq, e1, pings, e2) ==
    LET none == [rq |-> rq, raised |-> "", enqueued |-> FALSE, submissions |-> 0,
                 reconnects |-> 0, attempts |-> 0, slept |-> 0]
        r == Reconnect(im, rq, pings)
        tried == [none EXCEPT !.rq = r.rq, !.reconnects = 1,
                     !.attempts = r.attempts, !.slept = r.slept]
        \* the reconnect and the second submission
        retried ==
            IF r.raised # ""
            THEN [tried EXCEPT !.raised = "JobEnqueueError", !.submissions = 1]
            ELSE [tried EXCEPT !.raised = IF e2 = "ok" THEN "" ELSE "JobEnqueueError",
                               !.enqueued = (e2 = "ok"), !.submissions = 2]
    IN  IF ~rq.queue
        THEN [none EXCEPT !.raised = "QueueConnectionError"]
        ELSE IF e1 = "ok"
        THEN [none EXCEPT !.enqueued = TRUE, !.submissions = 1]
        ELSE IF e1 = "redis_error"
        THEN retried
        ELSE retried

\* enqueue_job that connects when it has no queue handle
enqueue_job_lazyconnect(im, rq, e1, pings, e2) ==
    LET none == [rq |-> rq, raised |-> "", enqueued |-> FALSE, submissions |-> 0,
                 reconnects |-> 0, attempts |-> 0, slept |-> 0]
        r == Reconnect(im, rq, pings)
        tried == [none EXCEPT !.rq = r.rq, !.reconnects = 1,
                     !.attempts = r.attempts, !.slept = r.slept]
        \* the reconnect and the second submission
        retried ==
            IF r.raised # ""
            THEN [tried EXCEPT !.raised = "JobEnqueueError", !.submissions = 1]
            ELSE [tried EXCEPT !.raised = IF e2 = "ok" THEN "" ELSE "JobEnqueueError",
                               !.enqueued = (e2 = "ok"), !.submissions = 2]
    IN  IF ~rq.queue
        THEN LET c == Connect(im, rq, pings)
             IN  IF c.raised # ""
                 THEN [none EXCEPT !.rq = c.rq, !.raised = "QueueConnectionError",
                                   !.reconnects = 1]
                 ELSE [none EXCEPT !.rq = c.rq, !.enqueued = TRUE, !.submissions = 1,
                                   !.reconnects = 1]
        ELSE IF e1 = "ok"
        THEN [none EXCEPT !.enqueued = TRUE, !.submissions = 1]
        ELSE IF e1 = "redis_error"
        THEN retried
        ELSE [none EXCEPT !.raised = "JobEnqueueError", !.submissions = 1]

\* enqueue_job: e1 is the outcome of the first submission, pings the outcomes
\* of the pings of the reconnect, e2 the outcome of the second submission.
\* The result: the client, the error raised, whether a task was pushed, the
\* numbers of submissions and of reconnects, and the pings and sleep of the
\* reconnect.
enqueue_job(im, rq, e1, pings, e2) ==
    LET none == [rq |-> rq, raised |-> "", enqueued |-> FALSE, submissions |-> 0,
                 reconnects |-> 0, attempts |-> 0, slept |-> 0]
        r == Reconnect(im, rq, pings)
        tried == [none EXCEPT !.rq = r.rq, !.reconnects = 1,
                     !.attempts = r.attempts, !.slept = r.slept]
        \* the reconnect and the second submission
        retried ==
            IF r.raised # ""
            THEN [tried EXCEPT !.raised = "JobEnqueueError", !.submissions = 1]
            ELSE [tried EXCEPT !.raised = IF e2 = "ok" THEN "" ELSE "JobEnqueueError",
                               !.enqueued = (e2 = "ok"), !.submissions = 2]
    IN  IF ~rq.queue
        THEN [none EXCEPT !.raised = "QueueConnectionError"]
        ELSE IF e1 = "ok"
        THEN [none EXCEPT !.enqueued = TRUE, !.submissions = 1]
        ELSE IF e1 = "redis_error"
        THEN retried
        ELSE [none EXCEPT !.raised = "JobEnqueueError", !.submissions = 1]

\* get_queue_info without the check of the queue handle
get_queue_info_unchecked(rq, outcome) ==
    IF outcome = "ok" /\ rq.queue THEN [rq |-> rq, raised |-> "", reads |-> 1]
    ELSE [rq |-> rq, raised |-> "QueueConnectionError", reads |-> 1]

\* get_queue_info: outcome is that of reading the queue counters; reads says
\* whether they were read
get_queue_info(rq, outcome) ==
    IF ~rq.queue THEN [rq |-> rq, raised |-> "QueueConnectionError", reads |-> 0]
    ELSE IF outcome = "ok" THEN [rq |-> rq, raised |-> "", reads |-> 1]
    ELSE [rq |-> rq, raised |-> "QueueConnectionError", reads |-> 1]

\* close that lets the error of the underlying close through
close_raises(rq, close_ok) ==
    IF rq.redis_connection
    THEN IF close_ok THEN [rq |-> Unconnected, raised |-> "", closes |-> 1, logged |-> "info"]
         ELSE [rq |-> rq, raised |-> "Exception", closes |-> 1, logged |-> ""]
    ELSE [rq |-> rq, raised |-> "", closes |-> 0, logged |-> ""]

\* close that forgets the connection and keeps the queue handle
close_keepsqueue(rq, close_ok) ==
    IF rq.redis_connection
    THEN [rq |-> [rq EXCEPT !.redis_connection = FALSE], raised |-> "", closes |-> 1,
          logged |-> IF close_ok THEN "info" ELSE "warning"]
    ELSE [rq |-> rq, raised |-> "", closes |-> 0, logged |-> ""]

\* close: close_ok says whether the underlying close() returns; closes counts
\* the underlying close() calls
close(rq, close_ok) ==
    IF rq.redis_connection
    THEN [rq |-> Unconnected, raised |-> "", closes |-> 1,
          logged |-> IF close_ok THEN "info" ELSE "warning"]
    ELSE [rq |-> rq, raised |-> "", closes |-> 0, logged |-> ""]

----------------------------------------------------------------------------
(* JobLog rows and the LoggingService *)

JobLog(job_id, status, filename, notion_database_id, created_at) ==
    [job_id |-> job_id, status |-> status, filename |-> filename,
     notion_database_id |-> notion_database_id, created_at |-> created_at,
     completed_at |-> NullTime, result_message |-> None, notion_page_url |-> None]

\* db_session.get(JobLog, job_id): the rows with that primary key
session_get(db, job_id) == {r \in db : r.job_id = job_id}
Found(db, job_id) == session_get(db, job_id) # {}
Row(db, job_id) == CHOOSE r \in session_get(db, job_id) : TRUE

\* create_job_log without its existence check
create_job_log_check_unchecked(db, job_id, dbo) ==
    IF dbo = "get_fails" THEN "OperationalError" ELSE ""

\* create_job_log up to the existence check: the error it raises, "" for none
create_job_log_check(db, job_id, dbo) ==
    IF dbo = "get_fails" THEN "OperationalError"
    ELSE IF Found(db, job_id) THEN "already exists"
    ELSE ""

\* create_job_log_insert whose failed commit leaves the row behind
create_job_log_insert_norollback(db, job_id, filename, notion_database_id, now, dbo) ==
    IF Found(db, job_id) THEN [db |-> db, raised |-> "IntegrityError"]
    ELSE [db |-> db \cup {JobLog(job_id, "queued", filename, notion_database_id, now)},
          raised |-> IF dbo = "commit_fails" THEN "OperationalError" ELSE ""]

\* create_job_log_insert on a table without the primary key
create_job_log_insert_nokey(db, job_id, filename, notion_database_id, now, dbo) ==
    IF dbo = "commit_fails" THEN [db |-> db, raised |-> "OperationalError"]
    ELSE [db |-> db \cup {JobLog(job_id, "queued", filename, notion_database_id, now)},
          raised |-> ""]

\* create_job_log from the JobLog(...) construction to the commit; the
\* primary key of job_log rejects a second row with the same job_id
create_job_log_insert(db, job_id, filename, notion_database_id, now, dbo) ==
    IF dbo = "commit_fails" THEN [db |-> db, raised |-> "OperationalError"]
    ELSE IF Found(db, job_id) THEN [db |-> db, raised |-> "IntegrityError"]
    ELSE [db |-> db \cup {JobLog(job_id, "queued", filename, notion_database_id, now)},
          raised |-> ""]

\* DatabaseError(operation=..., table=...): what the error names
DatabaseError(operation, table) == [operation |-> operation, table |-> table]
NoError == DatabaseError("", "")

\* update_job_status that never stores notion_page_url
update_job_status_nourl(db, job_id, status, result_message, notion_page_url, now, dbo) ==
    IF dbo = "get_fails"
    THEN [db |-> db, raised |-> "DatabaseError", returned |-> FALSE, commits |-> 0,
          error |-> DatabaseError("update_job_status", "job_log")]
    ELSE IF ~Found(db, job_id)
    THEN [db |-> db, raised |-> "", returned |-> FALSE, commits |-> 0, error |-> NoError]
    ELSE LET job_log == Row(db, job_id)
             updated == [job_log EXCEPT
                 !.status = status,
                 !.completed_at = now,
                 !.result_message = IF Truthy(result_message) THEN result_message ELSE @]
         IN  IF dbo = "commit_fails"
             THEN [db |-> db, raised |-> "DatabaseError", returned |-> FALSE, commits |-> 1,
                   error |-> DatabaseError("update_job_status", "job_log")]
             ELSE [db |-> (db \ {job_log}) \cup {updated}, raised |-> "",
                   returned |-> TRUE, commits |-> 1, error |-> NoError]

\* update_job_status that inserts a row for an unknown job_id
update_job_status_upsert(db, job_id, status, result_message, notion_page_url, now, dbo) ==
    IF dbo = "get_fails"
    THEN [db |-> db, raised |-> "DatabaseError", returned |-> FALSE, commits |-> 0,
          error |-> DatabaseError("update_job_status", "job_log")]
    ELSE LET job_log == IF Found(db, job_id) THEN Row(db, job_id)
                        ELSE JobLog(job_id, "queued", None, None, now)
             updated == [job_log EXCEPT
                 !.status = status,
                 !.completed_at = now,
                 !.result_message = IF Truthy(result_message) THEN result_message ELSE @,
                 !.notion_page_url = IF Truthy(notion_page_url) THEN notion_page_url ELSE @]
         IN  IF dbo = "commit_fails"
             THEN [db |-> db, raised |-> "DatabaseError", returned |-> FALSE, commits |-> 1,
                   error |-> DatabaseError("update_job_status", "job_log")]
             ELSE [db |-> (db \ {job_log}) \cup {updated}, raised |-> "",
                   returned |-> TRUE, commits |-> 1, error |-> NoError]

\* update_job_status that sets completed_at only on the first terminal status
update_job_status_firstterminal(db, job_id, status, result_message, notion_page_url, now, dbo) ==
    IF dbo = "get_fails"
    THEN [db |-> db, raised |-> "DatabaseError", returned |-> FALSE, commits |-> 0,
          error |-> DatabaseError("update_job_status", "job_log")]
    ELSE IF ~Found(db, job_id)
    THEN [db |-> db, raised |-> "", returned |-> FALSE, commits |-> 0, error |-> NoError]
    ELSE LET job_log == Row(db, job_id)
             updated == [job_log EXCEPT
                 !.status = status,
                 !.completed_at = IF @ = NullTime /\ status \in {"success", "failure"}
                                  THEN now ELSE @,
                 !.result_message = IF Truthy(result_message) THEN result_message ELSE @,
                 !.notion_page_url = IF Truthy(notion_page_url) THEN notion_page_url ELSE @]
         IN  IF dbo = "commit_fails"
             THEN [db |-> db, raised |-> "DatabaseError", returned |-> FALSE, commits |-> 1,
                   error |-> DatabaseError("update_job_status", "job_log")]
             ELSE [db |-> (db \ {job_log}) \cup {updated}, raised |-> "",
                   returned |-> TRUE, commits |-> 1, error |-> NoError]

\* update_job_status that assigns the result fields whatever the arguments
update_job_status_overwrite(db, job_id, status, result_message, notion_page_url, now, dbo) ==
    IF dbo = "get_fails"
    THEN [db |-> db, raised |-> "DatabaseError", returned |-> FALSE, commits |-> 0,
          error |-> DatabaseError("update_job_status", "job_log")]
    ELSE IF ~Found(db, job_id)
    THEN [db |-> db, raised |-> "", returned |-> FALSE, commits |-> 0, error |-> NoError]
    ELSE LET job_log == Row(db, job_id)
             updated == [job_log EXCEPT
                 !.status = status,
                 !.completed_at = now,
                 !.result_message = result_message,
                 !.notion_page_url = notion_page_url]
         IN  IF dbo = "commit_fails"
             THEN [db |-> db, raised |-> "DatabaseError", returned |-> FALSE, commits |-> 1,
                   error |-> DatabaseError("update_job_status", "job_log")]
             ELSE [db |-> (db \ {job_log}) \cup {updated}, raised |-> "",
                   returned |-> TRUE, commits |-> 1, error |-> NoError]

\* update_job_status that stamps created_at as well
update_job_status_touch(db, job_id, status, result_message, notion_page_url, now, dbo) ==
    IF dbo = "get_fails"
    THEN [db |-> db, raised |-> "DatabaseError", returned |-> FALSE, commits |-> 0,
          error |-> DatabaseError("update_job_status", "job_log")]
    ELSE IF ~Found(db, job_id)
    THEN [db |-> db, raised |-> "", returned |-> FALSE, commits |-> 0, error |-> NoError]
    ELSE LET job_log == Row(db, job_id)
             updated == [job_log EXCEPT
                 !.status = status,
                 !.created_at = now,
                 !.completed_at = now,
                 !.result_message = IF Truthy(result_message) THEN result_message ELSE @,
                 !.notion_page_url = IF Truthy(notion_page_url) THEN notion_page_url ELSE @]
         IN  IF dbo = "commit_fails"
             THEN [db |-> db, raised |-> "DatabaseError", returned |-> FALSE, commits |-> 1,
                   error |-> DatabaseError("update_job_status", "job_log")]
             ELSE [db |-> (db \ {job_log}) \cup {updated}, raised |-> "",
                   returned |-> TRUE, commits |-> 1, error |-> NoError]

\* update_job_status whose failed commit is not rolled back
update_job_status_norollback(db, job_id, status, result_message, notion_page_url, now, dbo) ==
    IF dbo = "get_fails"
    THEN [db |-> db, raised |-> "DatabaseError", returned |-> FALSE, commits |-> 0,
          error |-> DatabaseError("update_job_status", "job_log")]
    ELSE IF ~Found(db, job_id)
    THEN [db |-> db, raised |-> "", returned |-> FALSE, commits |-> 0, error |-> NoError]
    ELSE LET job_log == Row(db, job_id)
             updated == [job_log EXCEPT
                 !.status = status,
                 !.completed_at = now,
                 !.result_message = IF Truthy(result_message) THEN result_message ELSE @,
                 !.notion_page_url = IF Truthy(notion_page_url) THEN notion_page_url ELSE @]
         IN  IF dbo = "commit_fails"
             THEN [db |-> (db \ {job_log}) \cup {updated}, raised |-> "DatabaseError",
                   returned |-> FALSE, commits |-> 1,
                   error |-> DatabaseError("update_job_status", "job_log")]
             ELSE [db |-> (db \ {job_log}) \cup {updated}, raised |-> "",
                   returned |-> TRUE, commits |-> 1, error |-> NoError]

\* update_job_status: the table after the call, whether it raised, whether it
\* returned a row (not None), the number of commits it issued and the
\* operation and table its DatabaseError names
update_job_status(db, job_id, status, result_message, notion_page_url, now, dbo) ==
    IF dbo = "get_fails"
    THEN [db |-> db, raised |-> "DatabaseError", returned |-> FALSE, commits |-> 0,
          error |-> DatabaseError("update_job_status", "job_log")]
    ELSE IF ~Found(db, job_id)
    THEN [db |-> db, raised |-> "", returned |-> FALSE, commits |-> 0, error |-> NoError]
    ELSE LET job_log == Row(db, job_id)
             updated == [job_log EXCEPT
                 !.status = status,
                 !.completed_at = now,
                 !.result_message = IF Truthy(result_message) THEN result_message ELSE @,
                 !.notion_page_url = IF Truthy(notion_page_url) THEN notion_page_url ELSE @]
         IN  IF dbo = "commit_fails"
             THEN [db |-> db, raised |-> "DatabaseError", returned |-> FALSE, commits |-> 1,
                   error |-> DatabaseError("update_job_status", "job_log")]
             ELSE [db |-> (db \ {job_log}) \cup {updated}, raised |-> "",
                   returned |-> TRUE, commits |-> 1, error |-> NoError]

\* get_job_log: found or not
get_job_log(db, job_id) == Found(db, job_id)

----------------------------------------------------------------------------
(* The jobs API *)

\* verify_callback_token that only checks the header is there
verify_callback_token_anytoken(x_callback_token) ==
    IF ~Truthy(x_callback_token) THEN "AuthenticationError" ELSE ""

\* verify_callback_token: the error it raises, "" when it returns the token
verify_callback_token(x_callback_token) ==
    IF ~Truthy(x_callback_token) THEN "AuthenticationError"
    ELSE IF x_callback_token # CALLBACK_SECRET_TOKEN THEN "AuthenticationError"
    ELSE ""

\* datetime.isoformat() + "Z", None for a null datetime
IsoZ(t) == IF t = NullTime THEN <<>> ELSE <<"iso", t, "Z">>

\* the body of GET /jobs/{job_id}/status for a stored row
StatusBody(job_log) ==
    [job_id |-> UuidStr(job_log.job_id), status |-> job_log.status,
     filename |-> job_log.filename, notion_database_id |-> job_log.notion_database_id,
     created_at |-> IsoZ(job_log.created_at), completed_at |-> IsoZ(job_log.completed_at),
     result_message |-> job_log.result_message, notion_page_url |-> job_log.notion_page_url]

\* a request and its response: the operation, its job_id and payload, the error
\* raised ("200" for none) and the number of commits it issued
NoResponse ==
    [op |-> "none", job_id |-> NoJob, payload |-> NoPayload, result |-> "", commits |-> 0,
     error |-> NoError]

\* POST /jobs/{job_id}/callback
JobCallback(job_id, token, payload, dbo) ==
    /\ LET auth == verify_callback_token(token)
           u == update_job_status(store, job_id, payload.status, payload.message,
                                  payload.notion_page_url, clock, dbo)
       IN  IF auth # ""
           THEN /\ last' = [op |-> "callback", job_id |-> job_id, payload |-> payload,
                            result |-> auth, commits |-> 0, error |-> NoError]
                /\ UNCHANGED <<store, clock, reported, nreports>>
           ELSE /\ store' = u.db
                /\ last' = [op |-> "callback", job_id |-> job_id, payload |-> payload,
                            commits |-> u.commits,
                            error |-> IF u.raised # ""
                                      THEN DatabaseError("update_job_status", "job_log")
                                      ELSE NoError,
                            result |-> IF u.raised # "" THEN "DatabaseError"
                                       ELSE IF ~u.returned THEN "ResourceNotFoundError"
                                       ELSE "200"]
                /\ IF u.returned
                   THEN /\ clock' = clock + 1
                        /\ nreports' = nreports + 1
                        /\ reported' = [reported EXCEPT ![job_id] =
                               IF payload = OkPayload /\ @ \in {"none", "ok"}
                               THEN "ok" ELSE "other"]
                   ELSE UNCHANGED <<clock, reported, nreports>>
    /\ UNCHANGED <<impl, broker, calls, client, backoff, sessions>>

\* GET /jobs/{job_id}/status: the error raised ("200" for none) and the body
get_job_status(db, job_id, dbo) ==
    IF dbo # "ok"
    THEN [result |-> "DatabaseError", body |-> <<>>,
          error |-> DatabaseError("get_job_log", "job_log")]
    ELSE IF ~get_job_log(db, job_id)
    THEN [result |-> "ResourceNotFoundError", body |-> <<>>, error |-> NoError]
    ELSE [result |-> "200", body |-> <<StatusBody(Row(db, job_id))>>, error |-> NoError]

GetJobStatus(job_id, dbo) ==
    /\ last' = [op |-> "status", job_id |-> job_id, payload |-> NoPayload, commits |-> 0,
                result |-> get_job_status(store, job_id, dbo).result,
                error |-> get_job_status(store, job_id, dbo).error]
    /\ UNCHANGED <<impl, store, clock, broker, calls, reported, nreports, client, backoff, sessions>>

----------------------------------------------------------------------------
(* update_job_status in a database session of its own: db_session.get and the
   assignments, then db_session.commit *)

\* the sessions that can be open at once, one per request
SessionIds == {1, 2}

NoRow == JobLog(NoJob, None, None, None, NullTime)

\* a session: where its request stands, the request, the row it loaded, the
\* row after the assignments and the error raised ("200" for none)
IdleSession ==
    [pc |-> "idle", job_id |-> NoJob, payload |-> NoPayload, loaded |-> NoRow,
     assigned |-> NoRow, result |-> ""]

\* the assignments update_job_status makes to the loaded row
assign(job_log, status, result_message, notion_page_url, now) ==
    [job_log EXCEPT
        !.status = status,
        !.completed_at = now,
        !.result_message = IF Truthy(result_message) THEN result_message ELSE @,
        !.notion_page_url = IF Truthy(notion_page_url) THEN notion_page_url ELSE @]

\* db_session.commit(): the UPDATE of the row with the primary key of the
\* loaded one sets the columns whose value the assignments changed, and no
\* other column
flush(db, loaded, assigned) ==
    LET cur == Row(db, loaded.job_id)
        written == [col \in DOMAIN cur |->
                       IF assigned[col] # loaded[col] THEN assigned[col] ELSE cur[col]]
    IN  (db \ {cur}) \cup {written}

\* POST /jobs/{job_id}/callback, up to the assignments of update_job_status;
\* the request gets the first session that is free
SessionGet(s, job_id, payload, dbo) ==
    /\ sessions[s].pc # "loaded"
    /\ \A t \in SessionIds : t < s => sessions[t].pc = "loaded"
    /\ clock < MaxClock
    /\ LET ended(result) == [IdleSession EXCEPT !.pc = "done", !.job_id = job_id,
                                !.payload = payload, !.result = result]
           answer(result) == [op |-> "callback", job_id |-> job_id, payload |-> payload,
                              result |-> result, commits |-> 0,
                              error |-> IF result = "DatabaseError"
                                        THEN DatabaseError("update_job_status", "job_log")
                                        ELSE NoError]
       IN  IF dbo = "get_fails"
           THEN /\ sessions' = [sessions EXCEPT ![s] = ended("DatabaseError")]
                /\ last' = answer("DatabaseError")
                /\ clock' = clock
           ELSE IF ~Found(store, job_id)
           THEN /\ sessions' = [sessions EXCEPT ![s] = ended("ResourceNotFoundError")]
                /\ last' = answer("ResourceNotFoundError")
                /\ clock' = clock
           ELSE /\ sessions' = [sessions EXCEPT ![s] =
                       [pc |-> "loaded", job_id |-> job_id, payload |-> payload,
                        loaded |-> Row(store, job_id),
                        assigned |-> assign(Row(store, job_id), payload.status,
                                            payload.message, payload.notion_page_url, clock),
                        result |-> ""]]
                /\ last' = last
                /\ clock' = clock + 1
    /\ UNCHANGED <<impl, store, broker, calls, reported, nreports, client, backoff>>

\* POST /jobs/{job_id}/callback, from the commit of update_job_status on
SessionCommit(s, dbo) ==
    /\ sessions[s].pc = "loaded"
    /\ LET ses == sessions[s]
           result == IF dbo = "commit_fails" THEN "DatabaseError" ELSE "200"
       IN  /\ store' = IF dbo = "commit_fails" THEN store
                       ELSE flush(store, ses.loaded, ses.assigned)
           /\ sessions' = [sessions EXCEPT ![s] = [ses EXCEPT !.pc = "done",
                                                     !.result = result]]
           /\ last' = [op |-> "callback", job_id |-> ses.job_id, payload |-> ses.payload,
                       result |-> result, commits |-> 1,
                       error |-> IF dbo = "commit_fails"
                                 THEN DatabaseError("update_job_status", "job_log")
                                 ELSE NoError]
           /\ IF dbo = "commit_fails" THEN UNCHANGED <<reported, nreports>>
              ELSE /\ nreports' = nreports + 1
                   /\ reported' = [reported EXCEPT ![ses.job_id] =
                          IF ses.payload = OkPayload /\ @ \in {"none", "ok"}
                          THEN "ok" ELSE "other"]
    /\ UNCHANGED <<impl, clock, broker, calls, client, backoff>>

----------------------------------------------------------------------------
(* TaskService.create_and_enqueue_job, one step per storage or broker call *)

NoCreationResponse == [job_id |-> NoJob, status |-> None]
JobCreationResponse(job_id, status) == [job_id |-> job_id, status |-> status]

\* a call: its arguments (file, notion_database_id, job_id_arg), the job id it
\* works with, how it ended (raised, cause, response), whether its
\* create_job_log returned (created) and how often it called enqueue_job
IdleCall ==
    [pc |-> "idle", file |-> NoFile, notion_database_id |-> None, job_id_arg |-> NoJob,
     job_id |-> NoJob, raised |-> "", cause |-> "", response |-> NoCreationResponse,
     created |-> FALSE, enq_calls |-> 0, rq |-> Connected]

\* the call ends by raising error, whose message embeds cause
Raise(call, error, cause) == [call EXCEPT !.pc = "done", !.raised = error, !.cause = cause]

\* JobIdFor that generates an id even when the caller gave one
JobIdFor_regenerated(job_id, generated) == generated

\* the job id of the call: uuid4() when the caller gave none
JobIdFor(job_id, generated) == IF job_id = NoJob THEN generated ELSE job_id

\* uuid4(): an id no row and no call holds
Fresh(job_id) ==
    /\ ~Found(store, job_id)
    /\ \A c \in Calls : calls[c].job_id # job_id

\* _read_file_contents without the emptiness check
read_file_contents_unchecked(im, file, io_ok) ==
    IF ~io_ok
    THEN [raised |-> IF im = "accounting" THEN "FileValidationError" ELSE "ValueError",
          cause |-> "file_read_error"]
    ELSE [raised |-> "", cause |-> ""]

\* _read_file_contents: the error class it raises and its cause, "" for none
read_file_contents(im, file, io_ok) ==
    LET cls == IF im = "accounting" THEN "FileValidationError" ELSE "ValueError"
    IN  IF ~io_ok THEN [raised |-> cls, cause |-> "file_read_error"]
        ELSE IF file.contents = "" THEN [raised |-> cls, cause |-> "File is empty"]
        ELSE [raised |-> "", cause |-> ""]

\* the notion_database_id that create_and_enqueue_job hands to create_job_log
CreateJobLogNotionArg(im, notion_database_id) ==
    IF im = "accounting" THEN notion_database_id ELSE None

\* AfterCreate with the error of create_job_log swallowed
AfterCreate_swallowed(call, err) ==
    [call EXCEPT !.pc = "enqueue", !.created = (err = "")]

\* the call after create_job_log raised err, or returned (err = "")
AfterCreate(call, err) ==
    IF err # "" THEN Raise(call, "DatabaseError", err)
    ELSE [call EXCEPT !.pc = "enqueue", !.created = TRUE]

\* the task trigger_n8n_workflow that enqueue_job pushes
QueueTask(call) ==
    [rq_job_id |-> UuidStr(call.job_id), function_name |-> "trigger_n8n_workflow",
     job_id |-> call.job_id, image_data |-> call.file.contents,
     filename |-> call.file.filename, notion_database_id |-> call.notion_database_id,
     content_type |-> call.file.content_type]

\* the error create_and_enqueue_job raises when enqueue_job raised error
\* (the later TaskService wraps it, the earlier lets it through)
EnqueueFailure(im, error) == IF im = "accounting" THEN "QueueError" ELSE error

\* StoreAfterEnqueue that deletes the row when enqueue_job raised
StoreAfterEnqueue_rollback(db, job_id, error) ==
    IF error # "" THEN db \ session_get(db, job_id) ELSE db

\* StoreAfterEnqueue that empties the table when enqueue_job raised
StoreAfterEnqueue_truncate(db, job_id, error) ==
    IF error # "" THEN {} ELSE db

\* the job_log table after enqueue_job raised error ("" when it returned):
\* the handler logs and raises, and leaves the row where it is
StoreAfterEnqueue(db, job_id, error) == db

\* the call starts: job id generation and _read_file_contents
Submit(c, file, notion_database_id, job_id, io_ok) ==
    /\ calls[c].pc = "idle"
    /\ \A b \in Calls : b < c => calls[b].pc # "idle"
    /\ \E generated \in JobIds :
          /\ job_id = NoJob => Fresh(generated)
          /\ LET rd == read_file_contents(impl, file, io_ok)
                 started == [IdleCall EXCEPT !.file = file,
                                !.notion_database_id = notion_database_id,
                                !.job_id_arg = job_id,
                                !.job_id = JobIdFor(job_id, generated)]
             IN  calls' = [calls EXCEPT ![c] =
                              IF rd.raised # "" THEN Raise(started, rd.raised, rd.cause)
                              ELSE [started EXCEPT !.pc = "create"]]
    /\ UNCHANGED <<impl, store, clock, broker, last, reported, nreports, client, backoff, sessions>>

\* create_job_log: the existence check
CreateCheck(c, dbo) ==
    /\ calls[c].pc = "create"
    /\ LET err == create_job_log_check(store, calls[c].job_id, dbo)
       IN  calls' = [calls EXCEPT ![c] =
                        IF err # "" THEN AfterCreate(@, err) ELSE [@ EXCEPT !.pc = "insert"]]
    /\ UNCHANGED <<impl, store, clock, broker, last, reported, nreports, client, backoff, sessions>>

\* create_job_log: the insert and its commit
CreateInsert(c, dbo) ==
    /\ calls[c].pc = "insert"
    /\ LET call == calls[c]
           r == create_job_log_insert(store, call.job_id, call.file.filename,
                    CreateJobLogNotionArg(impl, call.notion_database_id), clock, dbo)
       IN  /\ store' = r.db
           /\ clock' = clock + 1
           /\ calls' = [calls EXCEPT ![c] = AfterCreate(@, r.raised)]
    /\ UNCHANGED <<impl, broker, last, reported, nreports, client, backoff, sessions>>

\* queue_service.enqueue_job and the return of the response
Enqueue(c, e1, pings, e2) ==
    /\ calls[c].pc = "enqueue"
    /\ LET call == calls[c]
           r == enqueue_job(impl, call.rq, e1, pings, e2)
           called == [call EXCEPT !.enq_calls = @ + 1, !.rq = r.rq]
       IN  /\ broker' = IF r.enqueued THEN Append(broker, QueueTask(call)) ELSE broker
           /\ store' = StoreAfterEnqueue(store, call.job_id, r.raised)
           /\ calls' = [calls EXCEPT ![c] =
                            IF r.raised # ""
                            THEN Raise(called, EnqueueFailure(impl, r.raised), r.raised)
                            ELSE [called EXCEPT !.pc = "done",
                                     !.response = JobCreationResponse(call.job_id, "queued")]]
    /\ UNCHANGED <<impl, clock, last, reported, nreports, client, backoff, sessions>>

----------------------------------------------------------------------------
(* An RQService on its own: construction and enqueue_job calls *)

\* no RQService yet; a client records its last operation: the operation, the
\* broker's script for it (e1, pings, e2), the error raised with its cause and
\* what the operation did
NoPings == <<>>
NewClient ==
    [rq |-> Unconnected, op |-> "new", e1 |-> "", pings |-> NoPings, e2 |-> "",
     raised |-> "", cause |-> "", attempts |-> 0, slept |-> 0, submissions |-> 0,
     reconnects |-> 0, reads |-> 0, closes |-> 0, ops |-> 0]

\* the task of an enqueue_job call made for job_id
ClientTask(job_id) ==
    QueueTask([IdleCall EXCEPT !.job_id = job_id,
                               !.file = UploadFile("receipt.jpg", jpeg_bytes),
                               !.notion_database_id = "db-abc"])

\* there is an instance: a construction has returned
Constructed == client.op # "new" /\ ~(client.op = "init" /\ client.raised # "")

\* RQService(): __init__ runs _initialize_connection; when it raises there is
\* no instance, and the next construction starts afresh
ClientConnect(pings) ==
    /\ client.ops < MaxOps
    /\ ~Constructed
    /\ LET r == Connect(impl, Unconnected, pings)
       IN  client' = [NewClient EXCEPT !.rq = r.rq, !.op = "init", !.pings = pings,
                         !.raised = r.raised, !.cause = r.cause,
                         !.attempts = r.attempts, !.slept = r.slept,
                         !.ops = client.ops + 1]
    /\ UNCHANGED <<impl, store, clock, broker, calls, last, reported, nreports, backoff, sessions>>

\* enqueue_job on the constructed instance
ClientEnqueue(job_id, e1, pings, e2) ==
    /\ client.ops < MaxOps
    /\ Constructed
    /\ LET r == enqueue_job(impl, client.rq, e1, pings, e2)
       IN  /\ client' = [NewClient EXCEPT !.rq = r.rq, !.op = "enqueue",
                            !.e1 = e1, !.pings = pings, !.e2 = e2,
                            !.raised = r.raised,
                            !.attempts = r.attempts, !.slept = r.slept,
                            !.submissions = r.submissions, !.reconnects = r.reconnects,
                            !.ops = client.ops + 1]
           /\ broker' = IF r.enqueued THEN Append(broker, ClientTask(job_id)) ELSE broker
    /\ UNCHANGED <<impl, store, clock, calls, last, reported, nreports, backoff, sessions>>

\* get_queue_info on the constructed instance
ClientQueueInfo(outcome) ==
    /\ client.ops < MaxOps
    /\ Constructed
    /\ LET r == get_queue_info(client.rq, outcome)
       IN  client' = [NewClient EXCEPT !.rq = r.rq, !.op = "info", !.e1 = outcome,
                         !.raised = r.raised, !.reads = r.reads,
                         !.ops = client.ops + 1]
    /\ UNCHANGED <<impl, store, clock, broker, calls, last, reported, nreports, backoff, sessions>>

\* close on the constructed instance
ClientClose(close_ok) ==
    /\ client.ops < MaxOps
    /\ Constructed
    /\ LET r == close(client.rq, close_ok)
       IN  client' = [NewClient EXCEPT !.rq = r.rq, !.op = "close",
                         !.e1 = IF close_ok THEN "ok" ELSE "other_error",
                         !.raised = r.raised, !.closes = r.closes,
                         !.ops = client.ops + 1]
    /\ UNCHANGED <<impl, store, clock, broker, calls, last, reported, nreports, backoff, sessions>>

----------------------------------------------------------------------------
(* The backoff of the retry loop on its own *)

\* the retry attributes of an RQService, and the delays computed so far for
\* the failed attempts 0, 1, ...
RetryConfig(delay, max_delay) ==
    [retry_delay |-> delay, max_retry_delay |-> max_delay, delays |-> <<>>]

\* values of self.retry_delay and self.max_retry_delay
RetryDelays == 1 .. 4
MaxRetryDelays == {1, 5, 8, max_retry_delay}

\* the delay computation of the except branch for the next failed attempt
Sleep ==
    /\ Len(backoff.delays) < MaxAttempts
    /\ backoff' = [backoff EXCEPT !.delays =
                      Append(@, BackoffDelayOf(backoff.retry_delay, Len(@),
                                               backoff.max_retry_delay))]
    /\ UNCHANGED <<impl, store, clock, broker, calls, last, reported, nreports, client, sessions>>

----------------------------------------------------------------------------
(* The system *)

InitWith(im, config) ==
    /\ impl = im
    /\ backoff = config
    /\ store = {}
    /\ clock = 1
    /\ broker = <<>>
    /\ calls = [c \in Calls |-> IdleCall]
    /\ last = NoResponse
    /\ reported = [j \in JobIds |-> "none"]
    /\ nreports = 0
    /\ client = NewClient
    /\ sessions = [s \in SessionIds |-> IdleSession]

\* a deployment whose RQService has its retry configuration as constructed
InitOf(im) == InitWith(im, RetryConfig(retry_delay, max_retry_delay))

\* the deployment of 2-accouting-automation-system-Kiro
Init == InitOf("accounting")

\* the deployment of 2--Kiro
InitKiro == InitOf("kiro")

\* what the broker does during one enqueue_job call: the outcome of the first
\* submission and, after a Redis error, the pings of the reconnect (the first
\* nfail fail) and the outcome of the second submission
BrokerRuns ==
    {<<"ok", FailFirst(0), "ok">>, <<"other_error", FailFirst(0), "ok">>}
        \cup {<<"redis_error", FailFirst(nfail), e2>> :
                 nfail \in 0 .. max_retries - 1, e2 \in SubmitOutcomes}
        \cup {<<"redis_error", FailFirst(max_retries), "ok">>}

\* Concurrent uploads
Next ==
    \/ \E c \in Calls, req \in UploadRequests, job_id \in JobIds \cup {NoJob},
          io_ok \in BOOLEAN :
          Submit(c, req.file, req.notion_database_id, job_id, io_ok)
    \/ \E c \in Calls, dbo \in DbOutcomes : CreateCheck(c, dbo)
    \/ \E c \in Calls, dbo \in DbOutcomes : CreateInsert(c, dbo)
    \/ \E c \in Calls, run \in BrokerRuns : Enqueue(c, run[1], run[2], run[3])

Spec == Init /\ [][Next]_vars

\* One upload, with callbacks and status queries in full
NextLifecycle ==
    \/ \E req \in UploadRequests, job_id \in JobIds \cup {NoJob} :
          Submit(1, req.file, req.notion_database_id, job_id, TRUE)
    \/ CreateCheck(1, "ok")
    \/ CreateInsert(1, "ok")
    \/ \E run \in BrokerRuns : Enqueue(1, run[1], run[2], run[3])
    \/ \E job_id \in JobIds, req \in CallbackRequests :
          /\ nreports < MaxUpdates
          /\ JobCallback(job_id, req.token, req.payload, req.dbo)
    \/ \E job_id \in JobIds, dbo \in DbOutcomes : GetJobStatus(job_id, dbo)

SpecLifecycle == Init /\ [][NextLifecycle]_vars

\* the callbacks of the workers of concurrent uploads: a success and a failure
ConcurrentPayloads ==
    {OkPayload, [status |-> "failure", message |-> "bad image", notion_page_url |-> None]}

\* Concurrent uploads and the callbacks for their jobs
NextConcurrent ==
    \/ Next
    \/ \E job_id \in JobIds, payload \in ConcurrentPayloads, dbo \in {"ok", "commit_fails"} :
          /\ nreports < MaxUpdates
          /\ JobCallback(job_id, CALLBACK_SECRET_TOKEN, payload, dbo)

SpecConcurrent == Init /\ [][NextConcurrent]_vars

\* the callbacks that meet in the sessions: progress reports and the two outcomes
SessionPayloads ==
    {[status |-> "processing", message |-> None, notion_page_url |-> None],
     [status |-> "processing", message |-> "bad image", notion_page_url |-> None],
     OkPayload,
     [status |-> "failure", message |-> "bad image", notion_page_url |-> None]}

\* One upload, and callbacks in sessions of their own that read, then commit
NextSessions ==
    \/ \E req \in UploadRequests : Submit(1, req.file, req.notion_database_id, NoJob, TRUE)
    \/ CreateCheck(1, "ok")
    \/ CreateInsert(1, "ok")
    \/ \E e1 \in {"ok", "other_error"} : Enqueue(1, e1, FailFirst(0), "ok")
    \/ \E s \in SessionIds, job_id \in JobIds, payload \in SessionPayloads,
          dbo \in {"ok", "get_fails"} : SessionGet(s, job_id, payload, dbo)
    \/ \E s \in SessionIds, dbo \in {"ok", "commit_fails"} : SessionCommit(s, dbo)

SpecSessions == Init /\ [][NextSessions]_vars

\* The same uploads under the TaskService of 2--Kiro
SpecKiro == InitKiro /\ [][Next]_vars

\* what the broker does during one enqueue_job call of the client
ClientRuns ==
    {<<"ok", FailFirst(0), "ok">>, <<"other_error", FailFirst(0), "ok">>}
        \cup {<<"redis_error", pings, e2>> : pings \in PingRuns, e2 \in SubmitOutcomes}

\* One RQService: constructions and calls of its methods
NextQueue ==
    \/ \E pings \in PingRuns : ClientConnect(pings)
    \/ \E job_id \in JobIds, run \in ClientRuns :
          ClientEnqueue(job_id, run[1], run[2], run[3])
    \/ \E outcome \in {"ok", "other_error"} : ClientQueueInfo(outcome)
    \/ \E close_ok \in BOOLEAN : ClientClose(close_ok)

SpecQueue == Init /\ [][NextQueue]_vars

\* The RQService of either snapshot
InitAny == \E im \in {"accounting", "kiro"} : InitOf(im)

SpecQueueAny == InitAny /\ [][NextQueue]_vars

\* The delay computation under every retry configuration
InitBackoff ==
    \E delay \in RetryDelays, max_delay \in MaxRetryDelays :
        InitWith("accounting", RetryConfig(delay, max_delay))

NextBackoff == Sleep

SpecBackoff == InitBackoff /\ [][NextBackoff]_vars

----------------------------------------------------------------------------
(* Properties *)

RowsOf(job_id) == session_get(store, job_id)
CallsOf(job_id) == {c \in Calls : calls[c].job_id = job_id}
\* the row that call c wrote when its create_job_log returned
RowWrittenBy(c, created_at) ==
    JobLog(calls[c].job_id, "queued", calls[c].file.filename,
           CreateJobLogNotionArg(impl, calls[c].notion_database_id), created_at)

\* C1: a create_job_log for a job_id that already has a row, whose lookup does
\* not itself fail, raises the already-exists DatabaseError, and so does the
\* submit that made it; the table is left as it was, and afterwards the job_id
\* has exactly one row, the one the first submit wrote.
C1_DuplicateRejected ==
    /\ [][\A c \in Calls :
            (calls[c].pc = "create" /\ calls'[c].pc # "create"
                /\ Found(store, calls[c].job_id))
            => /\ calls'[c].pc = "done"
               /\ calls'[c].raised = "DatabaseError"
               /\ calls'[c].cause \in {"already exists", "OperationalError"}
               /\ store' = store]_vars
    /\ [](\A c \in Calls :
            (calls[c].pc = "done" /\ calls[c].cause = "already exists")
            => /\ calls[c].raised = "DatabaseError"
               /\ ~calls[c].created
               /\ calls[c].enq_calls = 0
               /\ Cardinality(RowsOf(calls[c].job_id)) = 1
               /\ \E d \in Calls \ {c} :
                     /\ calls[d].created
                     /\ \A r \in RowsOf(calls[c].job_id) : r = RowWrittenBy(d, r.created_at))

\* a duplicate submit with another file has been rejected
C1_Witness ==
    \E c \in Calls :
        /\ calls[c].pc = "done"
        /\ calls[c].cause = "already exists"
        /\ calls[c].job_id_arg = calls[c].job_id
        /\ \E r \in RowsOf(calls[c].job_id) : r.filename # calls[c].file.filename

\* C2: however submits for one job_id interleave, at most one of them has its
\* create_job_log return, at most one of them calls enqueue_job, the job_id never
\* has two rows, and it has exactly one once a create returned.
C2_OneCreatePerJobId ==
    \A j \in JobIds :
        /\ Cardinality({c \in CallsOf(j) : calls[c].created}) <= 1
        /\ Cardinality({c \in CallsOf(j) : calls[c].enq_calls > 0}) <= 1
        /\ Cardinality({c \in CallsOf(j) : calls[c].pc = "done" /\ calls[c].raised = ""}) <= 1
        /\ Cardinality(RowsOf(j)) <= 1
        /\ (\E c \in CallsOf(j) : calls[c].created) => Cardinality(RowsOf(j)) = 1
        /\ Len(SelectSeq(broker, LAMBDA t : t.job_id = j)) <= 1

\* two submits passed the existence check together; one inserted, the other
\* hit the primary key
C2_Witness ==
    \E c, d \in Calls :
        /\ c # d
        /\ calls[c].job_id = calls[d].job_id
        /\ calls[c].created
        /\ calls[d].pc = "done"
        /\ calls[d].cause = "IntegrityError"

\* C3: a call invokes enqueue_job only after its create_job_log has returned,
\* and a call whose create_job_log raised never invokes it.
C3_CreateBeforeEnqueue ==
    /\ [][\A c \in Calls :
            calls'[c].enq_calls > calls[c].enq_calls
            => calls[c].created /\ Found(store, calls[c].job_id)]_vars
    /\ [](\A c \in Calls :
            /\ calls[c].enq_calls > 0 => calls[c].created
            /\ calls[c].raised = "DatabaseError"
               => calls[c].enq_calls = 0 /\ calls[c].pc = "done"
            /\ \A i \in 1 .. Len(broker) :
                  \E d \in Calls : calls[d].created /\ broker[i] = QueueTask(calls[d]))

\* a create_job_log failed and the call ended without an enqueue
C3_Witness ==
    \E c \in Calls :
        /\ calls[c].pc = "done"
        /\ calls[c].raised = "DatabaseError"
        /\ calls[c].enq_calls = 0
        /\ \E d \in Calls : calls[d].enq_calls = 1 /\ calls[d].created

\* C4: when enqueue_job raises after create_job_log returned, the submit raises
\* QueueError and the row is kept: as long as no status update has been
\* committed for the job_id the row is there with status queued and a null
\* completed_at, and only a committed status update takes a row out of queued.
C4_OrphanStaysQueued ==
    /\ [](\A c \in Calls :
            (calls[c].pc = "done" /\ calls[c].created /\ calls[c].raised # "")
            => /\ calls[c].raised = "QueueError"
               /\ calls[c].enq_calls = 1
               /\ Cardinality(RowsOf(calls[c].job_id)) = 1
               /\ reported[calls[c].job_id] = "none"
                  => \A r \in RowsOf(calls[c].job_id) :
                        r.status = "queued" /\ r.completed_at = NullTime)
    /\ [][\A r \in store :
            (r.status = "queued" /\ nreports' = nreports) => r \in store']_vars

\* an enqueue failed after the create and the row is still queued
C4_Witness ==
    \E c \in Calls :
        /\ calls[c].pc = "done"
        /\ calls[c].raised = "QueueError"
        /\ calls[c].created
        /\ reported[calls[c].job_id] = "none"
        /\ \E r \in RowsOf(calls[c].job_id) : r.status = "queued"
        /\ broker = <<>>

\* C5: a submit of an empty file raises FileValidationError before anything
\* else happens: the call never reaches create_job_log or enqueue_job, and it
\* adds no row and no task.
C5_EmptyPayloadRejected ==
    /\ [](\A c \in Calls :
            (calls[c].pc # "idle" /\ calls[c].file.contents = "")
            => /\ calls[c].pc = "done"
               /\ calls[c].raised = "FileValidationError"
               /\ ~calls[c].created
               /\ calls[c].enq_calls = 0)
    /\ [][\A c \in Calls :
            (calls[c].pc = "idle" /\ calls'[c].pc # "idle" /\ calls'[c].file.contents = "")
            => store' = store /\ broker' = broker]_vars

\* an empty file has been submitted and rejected
C5_Witness ==
    \E c \in Calls :
        /\ calls[c].pc = "done"
        /\ calls[c].file.contents = ""
        /\ calls[c].cause = "File is empty"

C7_SuccessfulSubmit ==
    \A c \in Calls :
        (calls[c].pc = "done" /\ calls[c].raised = "")
        => /\ calls[c].response.status = "queued"
           /\ calls[c].response.job_id = calls[c].job_id
           /\ calls[c].response.job_id \in JobIds
           /\ calls[c].job_id_arg # NoJob => calls[c].response.job_id = calls[c].job_id_arg
           /\ calls[c].created
           /\ calls[c].enq_calls = 1
           /\ \E r \in store :
                 /\ RowsOf(calls[c].response.job_id) = {r}
                 /\ r = RowWrittenBy(c, r.created_at)
                 /\ r.status = "queued"
                 /\ r.completed_at = NullTime
                 /\ r.result_message = None
                 /\ r.notion_page_url = None
           /\ Len(SelectSeq(broker, LAMBDA t : t.job_id = calls[c].response.job_id)) = 1

\* one submit with a caller's id and one with a generated id have returned
C7_Witness ==
    \E c, d \in Calls :
        /\ calls[c].pc = "done" /\ calls[c].raised = "" /\ calls[c].job_id_arg # NoJob
        /\ calls[d].pc = "done" /\ calls[d].raised = "" /\ calls[d].job_id_arg = NoJob

\* C8: when a submit has returned, the row it created and the task it enqueued
\* carry its job id, the caller's filename and the caller's notion_database_id.
C8_RecordMatchesTask ==
    \A c \in Calls :
        (calls[c].pc = "done" /\ calls[c].raised = "")
        => \E r \in RowsOf(calls[c].job_id), i \in 1 .. Len(broker) :
              /\ r.filename = calls[c].file.filename
              /\ r.notion_database_id = calls[c].notion_database_id
              /\ broker[i].job_id = r.job_id
              /\ broker[i].rq_job_id = UuidStr(r.job_id)
              /\ broker[i].filename = r.filename
              /\ broker[i].notion_database_id = r.notion_database_id

\* C9: once status updates have been committed for a job_id and each of them
\* was (success, "ok", "http://x"), the status query of that job_id answers
\* success, "ok", "http://x" and a completed_at that is not null.
C9_RoundTripStatus ==
    \A j \in JobIds :
        reported[j] = "ok"
        => LET q == get_job_status(store, j, "ok")
           IN  /\ q.result = "200"
               /\ q.body[1].job_id = UuidStr(j)
               /\ q.body[1].status = "success"
               /\ q.body[1].result_message = "ok"
               /\ q.body[1].notion_page_url = "http://x"
               /\ q.body[1].completed_at # IsoZ(NullTime)

\* a submit returned, two such updates were committed for its job and the
\* status of the job has been queried
C9_Witness ==
    \E c \in Calls :
        /\ calls[c].pc = "done"
        /\ calls[c].raised = ""
        /\ reported[calls[c].job_id] = "ok"
        /\ nreports >= 2
        /\ last = [op |-> "status", job_id |-> calls[c].job_id, payload |-> NoPayload,
                   result |-> "200", commits |-> 0, error |-> NoError]

\* C10: a callback with the right token, and a status query, for a job_id that
\* has no row answer ResourceNotFoundError when the lookup itself works; neither
\* commits, and both leave the table as it was.
C10_NotFound ==
    [][\A j \in JobIds :
          (~Found(store, j) /\ last'.job_id = j)
          => /\ (last'.op = "callback"
                    /\ JobCallback(j, CALLBACK_SECRET_TOKEN, last'.payload, "ok"))
                   => /\ last'.result = "ResourceNotFoundError"
                      /\ last'.commits = 0
                      /\ store' = store
             /\ GetJobStatus(j, "ok")
                => /\ last'.result = "ResourceNotFoundError"
                   /\ last'.commits = 0
                   /\ store' = store]_vars

\* a callback for a job_id without a row has been answered
C10_Witness ==
    /\ last.op = "callback"
    /\ last.result = "ResourceNotFoundError"
    /\ ~Found(store, last.job_id)
    /\ store # {}

\* C11: verify_callback_token lets the configured secret through and raises
\* AuthenticationError for a missing and for a different token; a callback
\* whose token is not the secret answers AuthenticationError, commits nothing
\* and leaves every row as it was, and a callback with the secret is never
\* answered AuthenticationError.
C11_AuthenticationGate ==
    /\ [](/\ verify_callback_token(None) = "AuthenticationError"
          /\ verify_callback_token("wrong") = "AuthenticationError"
          /\ verify_callback_token(CALLBACK_SECRET_TOKEN) = "")
    /\ [][\A token \in Tokens, dbo \in DbOutcomes :
            (/\ last'.op = "callback"
             /\ JobCallback(last'.job_id, token, last'.payload, dbo))
            => IF token = CALLBACK_SECRET_TOKEN
               THEN last'.result # "AuthenticationError"
               ELSE /\ last'.result = "AuthenticationError"
                    /\ last'.commits = 0
                    /\ store' = store]_vars

\* a callback with a bad token was refused for a job that is still queued
C11_Witness ==
    /\ last.op = "callback"
    /\ last.result = "AuthenticationError"
    /\ \E r \in RowsOf(last.job_id) : r.status = "queued" /\ r.completed_at = NullTime

\* C12: the status of every stored row is one of queued, processing, success,
\* failure (a callback with any other status is refused and changes nothing).
C12_StatusDomain ==
    \A r \in store : r.status \in JobStatus

\* C13: no status update takes a row that has left queued back to queued, and
\* none takes a row from success or failure to processing.
C13_StatusStateMachine ==
    [][\A r \in store, r2 \in store' :
          r2.job_id = r.job_id
          => /\ r.status # "queued" => r2.status # "queued"
             /\ r.status \in {"success", "failure"} => r2.status # "processing"]_vars

\* C14: a row whose completed_at is null keeps it null when it is queued or is
\* moved to processing, and gets a completed_at when it is moved to success or
\* failure.
C14_CompletedAtNullUntilTerminal ==
    [][\A r \in store, r2 \in store' :
          (r2.job_id = r.job_id /\ r.completed_at = NullTime)
          => /\ r2.status \in {"queued", "processing"} => r2.completed_at = NullTime
             /\ r2.status \in {"success", "failure"} => r2.completed_at # NullTime]_vars

C16_PartialUpdate ==
    [][(/\ last'.op = "callback"
        /\ Found(store, last'.job_id)
        /\ JobCallback(last'.job_id, CALLBACK_SECRET_TOKEN, last'.payload, "ok"))
          => LET p == last'.payload
                 r == Row(store, last'.job_id)
                 r2 == Row(store', last'.job_id)
             IN  /\ r2.result_message =
                       IF p.message \in {None, ""} THEN r.result_message ELSE p.message
                 /\ r2.notion_page_url =
                       IF p.notion_page_url \in {None, ""} THEN r.notion_page_url
                       ELSE p.notion_page_url]_vars

\* an update without message and url was committed and the row still has the
\* message and the url of an earlier update
C16_Witness ==
    /\ last.op = "callback"
    /\ last.result = "200"
    /\ last.payload.message \in {None, ""}
    /\ last.payload.notion_page_url = None
    /\ \E r \in RowsOf(last.job_id) :
          r.result_message = "bad image" /\ r.notion_page_url = "http://x"

\* C17: every step keeps every row's job_id, filename, notion_database_id and
\* created_at, and a row changes at all only in a callback that committed an
\* update for its job_id.
C17_FrameOfUpdate ==
    [][\A r \in store :
          \E r2 \in store' :
              /\ r2.job_id = r.job_id
              /\ r2.filename = r.filename
              /\ r2.notion_database_id = r.notion_database_id
              /\ r2.created_at = r.created_at
              /\ r2 # r => /\ nreports' = nreports + 1
                           /\ last'.op = "callback"
                           /\ last'.job_id = r.job_id
                           /\ last'.result = "200"]_vars

\* two updates were committed for the job of the submit and its row still has
\* the creation-time fields
C17_Witness ==
    /\ nreports >= 2
    /\ calls[1].created
    /\ \E r \in RowsOf(calls[1].job_id) :
          /\ r.status # "queued"
          /\ r.created_at < r.completed_at
          /\ r = [RowWrittenBy(1, r.created_at) EXCEPT
                     !.status = r.status, !.completed_at = r.completed_at,
                     !.result_message = r.result_message,
                     !.notion_page_url = r.notion_page_url]

\* C18: no step removes a row: a job_id that has a row has one after every
\* step, and its status query finds it.
C18_NoDeletion ==
    [][\A r \in store :
          /\ Found(store', r.job_id)
          /\ get_job_status(store', r.job_id, "ok").result = "200"]_vars

\* the enqueue failed, an update was committed, and the status query still
\* finds the row
C18_Witness ==
    /\ calls[1].pc = "done"
    /\ calls[1].raised = "QueueError"
    /\ nreports > 0
    /\ last.op = "status"
    /\ last.result = "200"
    /\ last.job_id = calls[1].job_id

\* the seconds slept when the delays after the failed attempts 0 .. n are added
RECURSIVE SumDelays(_)
SumDelays(n) == IF n < 0 THEN 0 ELSE SumDelays(n - 1) + BackoffDelay(n)

C20_TotalBackoff ==
    (client.op = "init" /\ client.raised = "QueueConnectionError")
    => /\ client.slept = SumDelays(max_retries - 1)
       /\ client.slept = 7

\* C20, amended: when every ping fails, _initialize_connection has slept the
\* sum of min(retry_delay * 2^i, max_retry_delay) for i = 0 .. max_retries - 2
\* before it raises, 1 + 2 = 3 seconds: it sleeps between attempts and not
\* after the last one.
C20_TotalBackoffAmended ==
    (client.op = "init" /\ client.raised = "QueueConnectionError")
    => /\ client.slept = SumDelays(max_retries - 2)
       /\ client.slept = 3

\* a construction failed after all its pings failed, having slept
C20_Witness ==
    /\ client.op = "init"
    /\ client.raised = "QueueConnectionError"
    /\ client.attempts = max_retries
    /\ client.slept > 0

\* C21: the delay after the failed attempt with 0-based index attempt is
\* min(retry_delay * 2^attempt, max_retry_delay); the delays never decrease
\* from one attempt to the next and never exceed max_retry_delay.
C21_BackoffDelay ==
    \A i \in 1 .. Len(backoff.delays) :
        LET attempt == i - 1
            doubled == backoff.retry_delay * 2^attempt
        IN  /\ backoff.delays[i] =
                  IF doubled <= backoff.max_retry_delay THEN doubled
                  ELSE backoff.max_retry_delay
            /\ backoff.delays[i] <= backoff.max_retry_delay
            /\ i > 1 => backoff.delays[i - 1] <= backoff.delays[i]

\* with the constructed configuration (1 s, 30 s) the delays have grown
\* 1, 2, 4, 8, 16 and reached the cap
C21_Witness ==
    /\ backoff.retry_delay = retry_delay
    /\ backoff.max_retry_delay = max_retry_delay
    /\ Len(backoff.delays) = MaxAttempts
    /\ backoff.delays[1] = 1
    /\ backoff.delays[5] = 16
    /\ backoff.delays[6] = 30

\* a step is a call of the client's method op
ClientStep(op) == client'.ops = client.ops + 1 /\ client'.op = op

\* the reconnect that meets the pings succeeds
ReconnectSucceeds(pings) ==
    IF impl = "accounting" THEN \E i \in 1 .. max_retries : pings[i] = "ok"
    ELSE pings[1] = "ok"

\* C22: an enqueue_job whose first submission fails with a connectivity error
\* and whose reconnect and second submission succeed returns without raising,
\* after exactly one reconnect and two submissions, with the task pushed once.
C22_ReconnectThenRetry ==
    [][(/\ ClientStep("enqueue")
        /\ client.rq.queue
        /\ client'.e1 = "redis_error"
        /\ ReconnectSucceeds(client'.pings)
        /\ client'.e2 = "ok")
       => /\ client'.raised = ""
          /\ client'.reconnects = 1
          /\ client'.submissions = 2
          /\ client'.rq = Connected
          /\ Len(broker') = Len(broker) + 1]_vars

\* an enqueue_job returned after a reconnect and a second submission
C22_Witness ==
    /\ client.op = "enqueue"
    /\ client.e1 = "redis_error"
    /\ client.raised = ""
    /\ client.reconnects = 1
    /\ client.submissions = 2
    /\ Len(broker) = 1

\* C23: an enqueue_job call reconnects at most once, with at most max_retries
\* pings, and submits at most twice; when the reconnect fails it raises
\* JobEnqueueError after one submission, when the second submission fails it
\* raises JobEnqueueError after two.
C23_OneReconnectCycle ==
    client.op = "enqueue"
    => /\ client.reconnects <= 1
       /\ client.submissions <= 2
       /\ client.attempts <= max_retries
       /\ client.reconnects = 0 => client.attempts = 0 /\ client.submissions <= 1
       /\ client.reconnects = 1
          => IF ~ReconnectSucceeds(client.pings)
             THEN client.raised = "JobEnqueueError" /\ client.submissions = 1
             ELSE /\ client.submissions = 2
                  /\ client.e2 # "ok" => client.raised = "JobEnqueueError"

\* the second submission failed after a reconnect that needed all its pings
C23_Witness ==
    /\ client.op = "enqueue"
    /\ client.reconnects = 1
    /\ client.attempts = max_retries
    /\ client.submissions = 2
    /\ client.raised = "JobEnqueueError"

C25_NoQueueFailsAtOnce ==
    [][(/\ ClientStep("enqueue") \/ ClientStep("info")
        /\ ~client.rq.queue)
       => /\ client'.raised = "QueueConnectionError"
          /\ client'.submissions = 0
          /\ client'.reads = 0
          /\ client'.reconnects = 0
          /\ client'.attempts = 0
          /\ client'.rq = client.rq
          /\ broker' = broker]_vars

\* get_queue_info was called on a closed client
C25_Witness ==
    /\ client.op = "info"
    /\ client.raised = "QueueConnectionError"
    /\ client.reads = 0
    /\ client.rq = Unconnected

\* C26: close never raises and leaves neither a connection nor a queue
\* handle, also when the underlying close fails; on a closed client it does
\* nothing; and a second close changes nothing the first has done.
C26_CloseIdempotent ==
    /\ [](client.op = "close" => client.raised = "" /\ client.rq = Unconnected)
    /\ [](\A a, b \in BOOLEAN :
            LET once == close(client.rq, a)
                twice == close(once.rq, b)
            IN  /\ once.raised = ""
                /\ twice.raised = ""
                /\ twice.rq = once.rq
                /\ twice.closes = 0)
    /\ [][(ClientStep("close") /\ ~client.rq.redis_connection)
          => client'.rq = client.rq /\ client'.closes = 0]_vars

\* the underlying close failed and the client is closed all the same
C26_Witness ==
    /\ client.op = "close"
    /\ client.e1 = "other_error"
    /\ client.closes = 1
    /\ client.raised = ""
    /\ client.rq = Unconnected

\* C29: an enqueue_job whose reconnect exhausts its pings leaves the client
\* without a queue handle; a client without a queue handle never gets one
\* again, and its enqueue_job and get_queue_info calls raise
\* QueueConnectionError without a ping.
C29_NoRecovery ==
    /\ [][(/\ ClientStep("enqueue")
           /\ client.rq.queue
           /\ client'.e1 = "redis_error"
           /\ ~ReconnectSucceeds(client'.pings))
          => /\ client'.raised = "JobEnqueueError"
             /\ client'.attempts = max_retries
             /\ ~client'.rq.queue]_vars
    /\ [][(Constructed /\ ~client.rq.queue)
          => /\ ~client'.rq.queue
             /\ client'.attempts = 0
             /\ client'.reconnects = 0
             /\ (ClientStep("enqueue") \/ ClientStep("info"))
                => client'.raised = "QueueConnectionError"]_vars

\* after a failed reconnect the next enqueue_job failed at once
C29_Witness ==
    /\ client.op = "enqueue"
    /\ client.raised = "QueueConnectionError"
    /\ client.rq.redis_connection
    /\ ~client.rq.queue
    /\ client.reconnects = 0

TasksOf(q, job_id) == SelectSeq(q, LAMBDA t : t.job_id = job_id)

\* the step leaves the rows and the tasks of every job but job_id as they were
OthersUntouched(job_id) ==
    \A k \in JobIds \ {job_id} :
        /\ session_get(store', k) = session_get(store, k)
        /\ TasksOf(broker', k) = TasksOf(broker, k)

\* call c takes its step as it would on a table that holds the rows of its
\* job alone
OwnStep(c) ==
    LET call == calls[c]
        j == calls'[c].job_id
        own == session_get(store, j)
    IN  CASE call.pc = "idle" ->
                 /\ store' = store
                 /\ broker' = broker
                 /\ calls'[c].pc \in {"create", "done"}
          [] call.pc = "create" ->
                 /\ store' = store
                 /\ broker' = broker
                 /\ \E dbo \in DbOutcomes :
                       LET err == create_job_log_check(own, j, dbo)
                       IN  calls'[c] = IF err # "" THEN AfterCreate(call, err)
                                       ELSE [call EXCEPT !.pc = "insert"]
          [] call.pc = "insert" ->
                 /\ broker' = broker
                 /\ \E dbo \in DbOutcomes :
                       LET r == create_job_log_insert(own, j, call.file.filename,
                                    CreateJobLogNotionArg(impl, call.notion_database_id),
                                    clock, dbo)
                       IN  /\ session_get(store', j) = r.db
                           /\ calls'[c] = AfterCreate(call, r.raised)
          [] call.pc = "enqueue" ->
                 \E run \in BrokerRuns :
                     LET r == enqueue_job(impl, call.rq, run[1], run[2], run[3])
                     IN  /\ session_get(store', j) = own
                         /\ TasksOf(broker', j) =
                                IF r.enqueued THEN Append(TasksOf(broker, j), QueueTask(call))
                                ELSE TasksOf(broker, j)
                         /\ calls'[c].raised =
                                IF r.raised # "" THEN EnqueueFailure(impl, r.raised) ELSE ""
          [] OTHER -> FALSE

\* C27: every step of a submit changes that call alone and the rows and tasks
\* of its job_id alone, and is the step the call takes on a table that holds
\* only its job's rows; every callback changes the rows of its job_id alone, as
\* update_job_status does on that job's rows alone, and no call; and a call
\* that has reached its enqueue pushes its task when the broker accepts it,
\* whatever became of the other calls.
C27_JobsIndependent ==
    /\ [][\A c \in Calls :
            calls'[c] # calls[c]
            => /\ \A b \in Calls \ {c} : calls'[b] = calls[b]
               /\ OthersUntouched(calls'[c].job_id)
               /\ OwnStep(c)]_vars
    /\ [][\A dbo \in {"ok", "commit_fails"} :
            (/\ last'.op = "callback"
             /\ JobCallback(last'.job_id, CALLBACK_SECRET_TOKEN, last'.payload, dbo))
            => LET j == last'.job_id
                   p == last'.payload
                   u == update_job_status(session_get(store, j), j, p.status, p.message,
                                          p.notion_page_url, clock, dbo)
               IN  /\ session_get(store', j) = u.db
                   /\ last'.commits = u.commits
                   /\ OthersUntouched(j)
                   /\ calls' = calls]_vars
    /\ [](\A c \in Calls :
            calls[c].pc = "enqueue"
            => LET r == enqueue_job(impl, calls[c].rq, "ok", FailFirst(0), "ok")
               IN  r.raised = "" /\ r.enqueued)

\* one submit failed at its enqueue; the other, for another job, was enqueued
\* and its job was reported a success, while the row of the failed one is
\* still queued
C27_Witness ==
    \E c, b \in Calls :
        /\ calls[c].pc = "done" /\ calls[c].raised # "" /\ calls[c].enq_calls = 1
        /\ calls[b].pc = "done" /\ calls[b].raised = ""
        /\ calls[b].job_id # calls[c].job_id
        /\ TasksOf(broker, calls[b].job_id) # <<>>
        /\ \E r \in RowsOf(calls[b].job_id) : r.status = "success"
        /\ \E r \in RowsOf(calls[c].job_id) : r.status = "queued"

\* the row after the requests of sessions a and b ran one after the other on
\* a table that held row alone
Serial(row, a, b) ==
    LET pa == sessions[a].payload
        pb == sessions[b].payload
        first == update_job_status({row}, row.job_id, pa.status, pa.message,
                     pa.notion_page_url, sessions[a].assigned.completed_at, "ok").db
        second == update_job_status(first, row.job_id, pb.status, pb.message,
                     pb.notion_page_url, sessions[b].assigned.completed_at, "ok").db
    IN  Row(second, row.job_id)

\* two rows that differ in completed_at at most
SameButCompletedAt(r1, r2) == [r1 EXCEPT !.completed_at = NullTime] =
                              [r2 EXCEPT !.completed_at = NullTime]

\* sessions a and b loaded the same row of the same job and both committed
RanConcurrently(a, b) ==
    /\ a # b
    /\ sessions[a].pc = "done" /\ sessions[a].result = "200"
    /\ sessions[b].pc = "done" /\ sessions[b].result = "200"
    /\ sessions[a].job_id = sessions[b].job_id
    /\ sessions[a].loaded = sessions[b].loaded

\* C30: when two callbacks for one job_id loaded the same row in sessions of
\* their own and both committed, the row is, up to the clock reading in
\* completed_at, the row that one of the two serial orders leaves; and a
\* result_message or notion_page_url that only one of them supplied is in it.
C30_ConcurrentReportsSerializable ==
    \A a, b \in SessionIds :
        RanConcurrently(a, b)
        => LET row == sessions[a].loaded
               final == Row(store, row.job_id)
           IN  /\ \/ SameButCompletedAt(final, Serial(row, a, b))
                  \/ SameButCompletedAt(final, Serial(row, b, a))
               /\ (Truthy(sessions[a].payload.message)
                      /\ ~Truthy(sessions[b].payload.message))
                  => final.result_message = sessions[a].payload.message
               /\ (Truthy(sessions[a].payload.notion_page_url)
                      /\ ~Truthy(sessions[b].payload.notion_page_url))
                  => final.notion_page_url = sessions[a].payload.notion_page_url

====
